---- MODULE Spec2Model ----
(***************************************************************************)
(* Model of CausalKinetiX/BSbasis.py: the cubic piecewise polynomial       *)
(* PP_Cubic (construction, evaluation, differentiation, the "%" product-   *)
(* integrate operator), get_BSbasis and the three matrix builders.         *)
(*                                                                         *)
(* Numbers.  The program computes in IEEE doubles; the model computes in   *)
(* exact rational arithmetic.  A real number is a pair <<n, d>> in lowest  *)
(* terms with d > 0, so two numbers are equal iff their pairs are equal.   *)
(* numpy arrays are sequences indexed from 1: source row/column i is model *)
(* index i+1.                                                              *)
(***************************************************************************)
EXTENDS Integers, Sequences, FiniteSets, TLC

(* ------------------------------ bounds -------------------------------- *)
\* largest data / knot value drawn (values are 0..MaxVal)
MaxVal == 2
\* longest data sequence handed to get_BSbasis
MaxN == 6
\* most evaluation points handed to a matrix builder
MaxP == 2
\* largest coefficient of a hand-built PP_Cubic
MaxCoef == 1
\* most differentiate() calls applied in a row to a hand-built PP_Cubic
MaxDiff == 4

(* --------------------------- exact rationals --------------------------- *)
Abs(n) == IF n < 0 THEN -n ELSE n

RECURSIVE GCD(_, _)
GCD(a, b) == IF b = 0 THEN a ELSE GCD(b, a % b)

\* the rational n/d (d # 0) in lowest terms with positive denominator
RN(n, d) ==
    LET g == GCD(Abs(n), Abs(d))
        s == IF d < 0 THEN -1 ELSE 1
    IN  <<(s * n) \div g, (s * d) \div g>>

Q(n) == <<n, 1>>
Zero == Q(0)
One == Q(1)
RAdd(a, b) == RN(a[1] * b[2] + b[1] * a[2], a[2] * b[2])
RSub(a, b) == RN(a[1] * b[2] - b[1] * a[2], a[2] * b[2])
RMul(a, b) == RN(a[1] * b[1], a[2] * b[2])
RDiv(a, b) == RN(a[1] * b[2], a[2] * b[1])
RLe(a, b) == a[1] * b[2] <= b[1] * a[2]
RLt(a, b) == a[1] * b[2] < b[1] * a[2]
RGt(a, b) == RLt(b, a)

RECURSIVE RPow(_, _)
RPow(a, k) == IF k = 0 THEN One ELSE RMul(a, RPow(a, k - 1))

RECURSIVE RSum(_)
RSum(s) == IF s = <<>> THEN Zero ELSE RAdd(Head(s), RSum(Tail(s)))

ZeroRow == <<Zero, Zero, Zero, Zero>>
\* np.zeros([4, 4])
Zeros44 == <<ZeroRow, ZeroRow, ZeroRow, ZeroRow>>

(* ------------------------- numpy polynomial helpers -------------------- *)
\* np.poly1d(c): leading zeros are trimmed, an all-zero vector becomes [0]
RECURSIVE poly1d(_)
poly1d(c) ==
    IF Len(c) = 0 THEN <<Zero>>
    ELSE IF Len(c) = 1 THEN c
    ELSE IF Head(c) = Zero THEN poly1d(Tail(c))
    ELSE c

\* np.poly1d.deriv(): coefficient of x^k (k >= 1) becomes k times the
\* coefficient of x^(k-1); the result is a poly1d again
polyder(p) ==
    LET n == Len(p) - 1
    IN  poly1d([i \in 1..n |-> RMul(Q(n - i + 1), p[i])])

\* np.poly1d.integ(): coefficient of x^k becomes 1/(k+1) times the
\* coefficient of x^(k+1), integration constant 0
polyint(p) ==
    LET n == Len(p)
    IN  poly1d([i \in 1..(n + 1) |->
                  IF i = n + 1 THEN Zero ELSE RDiv(p[i], Q(n - i + 1))])

\* np.poly1d.__call__ (np.polyval): Horner's scheme
RECURSIVE polyval(_, _)
polyval(p, x) ==
    IF Len(p) = 0 THEN Zero
    ELSE RAdd(RMul(polyval(SubSeq(p, 1, Len(p) - 1), x), x), p[Len(p)])

\* np.convolve(a, b): coefficient vector of the product polynomial
convolve(a, b) ==
    [n \in 1..(Len(a) + Len(b) - 1) |->
        RSum([i \in 1..Len(a) |->
                IF n - i + 1 >= 1 /\ n - i + 1 <= Len(b)
                THEN RMul(a[i], b[n - i + 1]) ELSE Zero])]

(* ------------------------------- PP_Cubic ------------------------------ *)
\* a failed assert of __init__: the exception, and no object
AssertionError == [raised |-> TRUE]

\* coefs.shape of a rectangular table with at least one row
shape(coefs) == <<Len(coefs), Len(coefs[1])>>

\* unsorted_count with >= for >: equal neighbours count as unsorted
unsorted_count_strict(knots) ==
    Cardinality({i \in 1..(Len(knots) - 1) :
                    RLe(knots[i + 1], knots[i])})

\* (knots[:-1] > knots[1:]).sum()
unsorted_count(knots) ==
    Cardinality({i \in 1..(Len(knots) - 1) : RGt(knots[i], knots[i + 1])})

\* the four asserts of PP_Cubic.__init__; ktype is type(knots)
init_asserts(knots, ktype, coefs) ==
    /\ Len(knots) = 5
    /\ ktype = "ndarray"
    /\ shape(coefs) = <<4, 4>>
    /\ unsorted_count(knots) = 0

PP_Cubic(idx, knots, ktype, coefs) ==
    IF init_asserts(knots, ktype, coefs)
    THEN [raised |-> FALSE, idx |-> idx, knots |-> knots, coefs |-> coefs]
    ELSE AssertionError

\* sum(coefs[i, k]*(x-knots[i])**(3-k) for k in range(4)), i a source row
cubic(PP, i, x) ==
    RSum([k1 \in 1..4 |->
            RMul(PP.coefs[i + 1][k1],
                 RPow(RSub(x, PP.knots[i + 1]), 3 - (k1 - 1)))])

Min(a, b) == IF a <= b THEN a ELSE b

\* (self.knots <= x).sum()
knots_le(PP, x) == Cardinality({j \in 1..5 : RLe(PP.knots[j], x)})

\* eval_branch testing only the lower end of the support
eval_branch_lower_only(PP, x) ==
    IF ~RLe(PP.knots[1], x) THEN -1
    ELSE IF RLe(PP.knots[1], x) /\ RLe(x, PP.knots[2]) THEN 0
    ELSE IF RLe(PP.knots[2], x) /\ RLe(x, PP.knots[3]) THEN 1
    ELSE Min(3, knots_le(PP, x) - 1)

\* eval_branch with the knot count taken one too low in the last branch
eval_branch_off_by_one(PP, x) ==
    IF ~(RLe(PP.knots[1], x) /\ RLe(x, PP.knots[5])) THEN -1
    ELSE IF RLe(PP.knots[1], x) /\ RLe(x, PP.knots[2]) THEN 0
    ELSE IF RLe(PP.knots[2], x) /\ RLe(x, PP.knots[3]) THEN 1
    ELSE Min(3, knots_le(PP, x) - 2)

\* the branch eval_PP takes: -1 for "return 0", else the source row used
eval_branch(PP, x) ==
    IF ~(RLe(PP.knots[1], x) /\ RLe(x, PP.knots[5])) THEN -1
    ELSE IF RLe(PP.knots[1], x) /\ RLe(x, PP.knots[2]) THEN 0
    ELSE IF RLe(PP.knots[2], x) /\ RLe(x, PP.knots[3]) THEN 1
    ELSE Min(3, knots_le(PP, x) - 1)

eval_PP(PP, x) ==
    LET i == eval_branch(PP, x)
    IN  IF i = -1 THEN Zero ELSE cubic(PP, i, x)

\* PP_Cubic.__call__: np.vectorize(eval_PP)(vec)
PP_call(PP, vec) == [p \in 1..Len(vec) |-> eval_PP(PP, vec[p])]

\* deriv_row writing tmp_coef at the left end: out_coefs[i, :len(tmp_coef)]
deriv_row_left(row) ==
    LET tmp_coef == polyder(poly1d(row))
    IN  [k1 \in 1..4 |-> IF k1 <= Len(tmp_coef) THEN tmp_coef[k1] ELSE Zero]

\* one row of differentiate: out_coefs[i, 4-len(tmp_coef):] = tmp_coef
deriv_row(row) ==
    LET tmp_coef == polyder(poly1d(row))
        off == 4 - Len(tmp_coef)
    IN  [k1 \in 1..4 |-> IF k1 > off THEN tmp_coef[k1 - off] ELSE Zero]

differentiate(PP) ==
    LET out_coefs == [i1 \in 1..4 |-> deriv_row(PP.coefs[i1])]
    IN  PP_Cubic(PP.idx, PP.knots, "ndarray", out_coefs)

\* A[lo:], A[:hi] on rows; hi may be negative as in Python
rows_from(A, lo) == SubSeq(A, lo + 1, Len(A))
rows_to(A, hi) == SubSeq(A, 1, IF hi < 0 THEN Len(A) + hi ELSE hi)
\* A[:, 2:]
cols_from2(A) == [i1 \in 1..Len(A) |-> SubSeq(A[i1], 3, 4)]

\* conv(A, B): row-wise np.convolve over zip(A, B)
conv(A, B) == [i1 \in 1..Min(Len(A), Len(B)) |-> convolve(A[i1], B[i1])]

\* prod_coefs of __mod__ after both operands were differentiated twice:
\* zeros with rows lo..hi-1 (source numbering), columns 1:, set to C
assign_rows(lo, hi, C) ==
    [i1 \in 1..4 |->
        IF i1 - 1 >= lo /\ i1 - 1 < hi
        THEN <<Zero>> \o C[i1 - lo]
        ELSE ZeroRow]

\* prod_coefs whose third branch takes the same rows of both operands
prod_coefs_unshifted(D1, D2) ==
    IF D1.idx < D2.idx
    THEN assign_rows(D2.idx - D1.idx, 4,
            conv(cols_from2(rows_from(D1.coefs, D2.idx - D1.idx)),
                 cols_from2(rows_to(D2.coefs, D1.idx - D2.idx))))
    ELSE IF D1.idx = D2.idx
    THEN assign_rows(0, 4, conv(cols_from2(D1.coefs), cols_from2(D2.coefs)))
    ELSE assign_rows(0, 4 + (D2.idx - D1.idx),
            conv(cols_from2(rows_to(D1.coefs, D2.idx - D1.idx)),
                 cols_from2(rows_to(D2.coefs, D2.idx - D1.idx))))

prod_coefs(D1, D2) ==
    IF D1.idx < D2.idx
    THEN assign_rows(D2.idx - D1.idx, 4,
            conv(cols_from2(rows_from(D1.coefs, D2.idx - D1.idx)),
                 cols_from2(rows_to(D2.coefs, D1.idx - D2.idx))))
    ELSE IF D1.idx = D2.idx
    THEN assign_rows(0, 4, conv(cols_from2(D1.coefs), cols_from2(D2.coefs)))
    ELSE assign_rows(0, 4 + (D2.idx - D1.idx),
            conv(cols_from2(rows_to(D1.coefs, D2.idx - D1.idx)),
                 cols_from2(rows_from(D2.coefs, D1.idx - D2.idx))))

\* row_integral integrating up to the knot itself, not the interval length
row_integral_to_knot(prod, knots, i) ==
    RSub(polyval(polyint(poly1d(prod[i + 1])), knots[i + 2]),
         polyval(polyint(poly1d(prod[i + 1])), Zero))

\* the contribution of source row i to total in __mod__
row_integral(prod, knots, i) ==
    RSub(polyval(polyint(poly1d(prod[i + 1])),
                 RSub(knots[i + 2], knots[i + 1])),
         polyval(polyint(poly1d(prod[i + 1])), Zero))

\* mod_run with the index test one too wide
mod_run_wide(PP1, PP2) ==
    IF Abs(PP1.idx - PP2.idx) > 4
    THEN [early |-> TRUE, total |-> Zero]
    ELSE LET D1 == differentiate(differentiate(PP1))
             D2 == differentiate(differentiate(PP2))
             prod == prod_coefs(D1, D2)
             part == [i1 \in 1..4 |-> row_integral(prod, D1.knots, i1 - 1)]
         IN  [early |-> FALSE, D1 |-> D1, D2 |-> D2, prod |-> prod,
              part |-> part, total |-> RSum(part)]

\* the run of PP1 % PP2: whether it returned at the index test, the two
\* second derivatives, prod_coefs, each row's contribution and the total
mod_run(PP1, PP2) ==
    IF Abs(PP1.idx - PP2.idx) > 3
    THEN [early |-> TRUE, total |-> Zero]
    ELSE LET D1 == differentiate(differentiate(PP1))
             D2 == differentiate(differentiate(PP2))
             prod == prod_coefs(D1, D2)
             part == [i1 \in 1..4 |-> row_integral(prod, D1.knots, i1 - 1)]
         IN  [early |-> FALSE, D1 |-> D1, D2 |-> D2, prod |-> prod,
              part |-> part, total |-> RSum(part)]

\* PP1 % PP2
PP_mod(PP1, PP2) == mod_run(PP1, PP2).total

(* ---------------- scipy: basis_element and PPoly.from_spline ----------- *)
\* (alpha*u + beta) * p for a polynomial p in u of degree <= 2, as 4
\* coefficients in descending powers
lin_mul(p, alpha, beta) ==
    [k1 \in 1..4 |->
        RAdd(RMul(alpha, IF k1 = 4 THEN Zero ELSE p[k1 + 1]),
             RMul(beta, p[k1]))]

poly_add(p, q) == [k1 \in 1..4 |-> RAdd(p[k1], q[k1])]

\* de Boor's recursion for the B-spline of degree k on knots t[i..i+k+1]
\* (source numbering), restricted to the interval [t[r], t[r+1]] and written
\* in the local variable u = x - t[r]; a term with a zero denominator is
\* dropped, as the evaluation routine does
RECURSIVE bspl(_, _, _, _)
bspl(t, i, k, r) ==
    IF k = 0 THEN (IF i = r THEN <<Zero, Zero, Zero, One>> ELSE ZeroRow)
    ELSE LET den1 == RSub(t[i + k + 1], t[i + 1])
             den2 == RSub(t[i + k + 2], t[i + 2])
             left == IF den1 = Zero THEN ZeroRow
                     ELSE lin_mul(bspl(t, i, k - 1, r),
                                  RDiv(One, den1),
                                  RDiv(RSub(t[r + 1], t[i + 1]), den1))
             right == IF den2 = Zero THEN ZeroRow
                      ELSE lin_mul(bspl(t, i + 1, k - 1, r),
                                   RDiv(Q(-1), den2),
                                   RDiv(RSub(t[i + k + 2], t[r + 1]), den2))
         IN  poly_add(left, right)

\* the interval the spline evaluation uses at x = t[r]: the first interval
\* at or after r with t[r] < its right end, and the last interval if none
RECURSIVE find_interval(_, _)
find_interval(t, r) ==
    IF r = 3 \/ RLt(t[r + 1], t[r + 2]) THEN r ELSE find_interval(t, r + 1)

\* Bbasis.c.T[3:7]: row r holds the Taylor coefficients at t[r] of the
\* spline as evaluated at t[r]
Bbasis_c(t) ==
    [r1 \in 1..4 |->
        LET l == find_interval(t, r1 - 1)
        IN  IF t[l + 1] = t[l + 2] THEN ZeroRow ELSE bspl(t, 0, 3, l)]

(* ------------------------ module-level functions ----------------------- *)
\* np.concatenate([[data[0]]*3, data, [data[-1]]*3])
data_padded(data) ==
    <<data[1], data[1], data[1]>> \o data \o
    <<data[Len(data)], data[Len(data)], data[Len(data)]>>

\* get_BSbasis building one function too few
get_BSbasis_short(data) ==
    [i1 \in 1..(Len(data) - 2 + 3) |->
        LET window == SubSeq(data_padded(data), i1, i1 + 4)
        IN  PP_Cubic(i1 - 1, window, "ndarray", Bbasis_c(window))]

get_BSbasis(data) ==
    [i1 \in 1..(Len(data) - 2 + 4) |->
        LET window == SubSeq(data_padded(data), i1, i1 + 4)
        IN  PP_Cubic(i1 - 1, window, "ndarray", Bbasis_c(window))]

\* the builders without the final .T
transpose_missing(rows, P) == rows

\* np.array(rows).T: entry (p, b) of the result is rows[b][p]
transpose(rows, P) ==
    [p \in 1..P |-> [b \in 1..Len(rows) |-> rows[b][p]]]

get_basis_matrix(data, BSbasis) ==
    transpose([b \in 1..Len(BSbasis) |-> PP_call(BSbasis[b], data)],
              Len(data))

get_deriv_matrix(data, BSbasis) ==
    LET BSderiv == [b \in 1..Len(BSbasis) |-> differentiate(BSbasis[b])]
    IN  transpose([b \in 1..Len(BSderiv) |-> PP_call(BSderiv[b], data)],
                  Len(data))

get_penalty_matrix(BSbasis) ==
    [i1 \in 1..Len(BSbasis) |->
        [j1 \in 1..Len(BSbasis) |-> PP_mod(BSbasis[i1], BSbasis[j1])]]

(* ------------------------------ the state ------------------------------ *)
VARIABLES
    data,    \* the array handed to get_BSbasis
    BB,      \* the basis get_BSbasis returned, <<>> before the call
    obj,     \* <<PP>> for a hand-built PP_Cubic, <<>> while there is none
    chain,   \* chain[1] = the object, chain[k+1] = chain[k].differentiate()
    last     \* the last call: its name, its arguments and what it returned

vars == <<data, BB, obj, chain, last>>

\* no result is pending: nothing was called yet, or the caller has taken
\* the last result
NoCall == [op |-> "none"]
Idle == last.op = "none"

RECURSIVE SortedSeqs(_, _)
\* the non-decreasing sequences of length n over lo..MaxVal
SortedSeqs(n, lo) ==
    IF n = 0 THEN {<<>>}
    ELSE UNION {{<<Q(v)>> \o s : s \in SortedSeqs(n - 1, v)} : v \in lo..MaxVal}

\* the sorted data arrays of 1..MaxN values
DataSet == UNION {SortedSeqs(n, 0) : n \in 1..MaxN}

\* evaluation points: the half-integers from -1/2 to MaxVal + 1/2
Grid == {RN(n, 2) : n \in (-1)..(2 * MaxVal + 1)}

RECURSIVE PointSeqs(_)
PointSeqs(n) ==
    IF n = 0 THEN {<<>>}
    ELSE {<<x>> \o s : x \in Grid, s \in PointSeqs(n - 1)}

\* the arrays of 0..MaxP evaluation points, in ascending order as the
\* callers pass them (time points)
VecSet ==
    {v \in UNION {PointSeqs(n) : n \in 0..MaxP} :
        \A p \in 1..(Len(v) - 1) : RLe(v[p], v[p + 1])}

(* ---------------- the module-level functions on a data array ----------- *)
Init ==
    /\ data \in DataSet
    /\ BB = <<>>
    /\ obj = <<>>
    /\ chain = <<>>
    /\ last = NoCall

\* BB = get_BSbasis(data)
GetBSbasis ==
    /\ BB = <<>>
    /\ BB' = get_BSbasis(data)
    /\ UNCHANGED <<data, obj, chain, last>>

\* get_basis_matrix(vec, BB)
GetBasisMatrix ==
    /\ BB # <<>>
    /\ Idle
    /\ \E vec \in VecSet :
          last' = [op |-> "get_basis_matrix", vec |-> vec,
                   out |-> get_basis_matrix(vec, BB)]
    /\ UNCHANGED <<data, BB, obj, chain>>

\* get_deriv_matrix(vec, BB)
GetDerivMatrix ==
    /\ BB # <<>>
    /\ Idle
    /\ \E vec \in VecSet :
          last' = [op |-> "get_deriv_matrix", vec |-> vec, BSbasis |-> BB,
                   out |-> get_deriv_matrix(vec, BB)]
    /\ UNCHANGED <<data, BB, obj, chain>>

\* get_penalty_matrix(BB)
GetPenaltyMatrix ==
    /\ BB # <<>>
    /\ Idle
    /\ last' = [op |-> "get_penalty_matrix", out |-> get_penalty_matrix(BB)]
    /\ UNCHANGED <<data, BB, obj, chain>>

\* BB[i] % BB[j], one entry of the penalty matrix
Mod ==
    /\ BB # <<>>
    /\ Idle
    /\ \E i1 \in 1..Len(BB), j1 \in 1..Len(BB) :
          last' = [op |-> "mod", i |-> i1 - 1, j |-> j1 - 1,
                   run |-> mod_run(BB[i1], BB[j1])]
    /\ UNCHANGED <<data, BB, obj, chain>>

\* the caller takes the result; every function is pure, so the next call
\* starts from the same basis
Return ==
    /\ ~Idle
    /\ last' = NoCall
    /\ UNCHANGED <<data, BB, obj, chain>>

Next ==
    \/ GetBSbasis
    \/ GetBasisMatrix
    \/ GetDerivMatrix
    \/ GetPenaltyMatrix
    \/ Mod
    \/ Return

Spec == Init /\ [][Next]_vars

(* ------------------- a PP_Cubic built and used by hand ------------------ *)
RECURSIVE AllSeqs(_)
\* every sequence of length n over 0..MaxVal, sorted or not
AllSeqs(n) ==
    IF n = 0 THEN {<<>>}
    ELSE {<<Q(v)>> \o s : v \in 0..MaxVal, s \in AllSeqs(n - 1)}

\* knots arguments: every array of 5 values, and the sorted arrays of 4 and 6
KnotArgs == AllSeqs(5) \cup SortedSeqs(4, 0) \cup SortedSeqs(6, 0)

CoefVals == 0..MaxCoef

\* the 4x4 table whose rows are the four rotations of <<a, b, c, -1>>: every
\* row position sees rows with 0, 1, 2 and 3 leading zeros
RotTable(a, b, c) ==
    <<<<Q(a), Q(b), Q(c), Q(-1)>>, <<Q(b), Q(c), Q(-1), Q(a)>>,
      <<Q(c), Q(-1), Q(a), Q(b)>>, <<Q(-1), Q(a), Q(b), Q(c)>>>>

Tables44 ==
    {RotTable(a, b, c) : a \in CoefVals, b \in CoefVals, c \in CoefVals}
    \cup {Zeros44}

\* coefs arguments that are not 4x4: 3x4, 5x4, 4x3 and 4x5
BadTables ==
    LET T == RotTable(1, 0, 1)
    IN  {SubSeq(T, 1, 3), T \o <<T[1]>>,
         [i1 \in 1..4 |-> SubSeq(T[i1], 1, 3)],
         [i1 \in 1..4 |-> T[i1] \o <<One>>]}

CoefArgs == Tables44 \cup BadTables

InitPP ==
    /\ data = <<>>
    /\ BB = <<>>
    /\ obj = <<>>
    /\ chain = <<>>
    /\ last = NoCall

\* PP_Cubic(idx, knots, coefs)
Construct ==
    /\ obj = <<>>
    /\ Idle
    /\ \E idx \in 0..1, knots \in KnotArgs, ktype \in {"ndarray", "list"},
          coefs \in CoefArgs :
          LET PP == PP_Cubic(idx, knots, ktype, coefs)
          IN  /\ obj' = IF PP.raised THEN <<>> ELSE <<PP>>
              /\ chain' = obj'
              /\ last' = [op |-> "init", idx |-> idx, knots |-> knots,
                          ktype |-> ktype, coefs |-> coefs,
                          raised |-> PP.raised]
    /\ UNCHANGED <<data, BB>>

\* chain[k](np.array([x])) for the object (k = 1) or one of its derivatives
Call ==
    /\ obj # <<>>
    /\ Idle
    /\ \E k \in 1..Len(chain), x \in Grid :
          last' = [op |-> "call", k |-> k, x |-> x,
                   row |-> eval_branch(chain[k], x),
                   out |-> PP_call(chain[k], <<x>>)[1]]
    /\ UNCHANGED <<data, BB, obj, chain>>

\* chain[Len(chain)].differentiate()
Differentiate ==
    /\ obj # <<>>
    /\ Idle
    /\ Len(chain) <= MaxDiff
    /\ LET recv == chain[Len(chain)]
           out == differentiate(recv)
       IN  /\ chain' = Append(chain, out)
           /\ last' = [op |-> "differentiate", recv |-> recv, out |-> out]
    /\ UNCHANGED <<data, BB, obj>>

\* the caller drops a failed construction's exception or takes a result
ReturnPP ==
    /\ ~Idle
    /\ last' = NoCall
    /\ UNCHANGED <<data, BB, obj, chain>>

NextPP ==
    \/ Construct
    \/ Call
    \/ Differentiate
    \/ ReturnPP

SpecPP == InitPP /\ [][NextPP]_vars

(* =============================== claims ================================ *)
Clamp(j, lo, hi) == IF j < lo THEN lo ELSE IF j > hi THEN hi ELSE j

\* entry j (from 1) of the data padded by 3 copies of each end
PadAt(j) == data[Clamp(j - 3, 1, Len(data))]

\* C3: for sorted data of N >= 2 values the padded knots are 3 copies of
\* the first value, the data, 3 copies of the last value (N+6 knots), and
\* the basis has exactly N+2 members, the i-th with index i and with the
\* knots padded[i], ..., padded[i+4]
C3_BasisWindows ==
    (BB # <<>> /\ Len(data) >= 2) =>
        /\ Len(data_padded(data)) = Len(data) + 6
        /\ \A j \in 1..(Len(data) + 6) : data_padded(data)[j] = PadAt(j)
        /\ Len(BB) = Len(data) + 2
        /\ \A i1 \in 1..Len(BB) :
              /\ ~BB[i1].raised
              /\ BB[i1].idx = i1 - 1
              /\ Len(BB[i1].knots) = 5
              /\ \A k1 \in 1..5 : BB[i1].knots[k1] = PadAt(i1 + k1 - 1)

C3_Witness ==
    /\ BB # <<>>
    /\ Len(data) >= 3
    /\ RLt(data[1], data[2])
    /\ RLt(data[2], data[Len(data)])

\* C2: the penalty entry of two basis functions whose positions differ by
\* more than 3 is exactly 0; "%" returns it at the index test, before any
\* differentiation or convolution; the index stored in basis[i] is i
C2_Banded ==
    /\ last.op = "get_penalty_matrix" =>
          \A i1 \in 1..Len(BB), j1 \in 1..Len(BB) :
              Abs(i1 - j1) > 3 => last.out[i1][j1] = Zero
    /\ (last.op = "mod" /\ Abs(last.i - last.j) > 3) =>
          (last.run.early /\ last.run.total = Zero)
    /\ BB # <<>> => \A i1 \in 1..Len(BB) : BB[i1].idx = i1 - 1

C2_Witness ==
    /\ last.op = "get_penalty_matrix"
    /\ Len(BB) >= 5
    /\ last.out[1][5] = Zero
    /\ last.out[1][4] # Zero

\* C1: the penalty matrix is symmetric: basis[i] % basis[j] equals
\* basis[j] % basis[i] for all positions i, j
C1_Symmetric ==
    last.op = "get_penalty_matrix" =>
        \A i1 \in 1..Len(BB), j1 \in 1..Len(BB) :
            last.out[i1][j1] = last.out[j1][i1]

C1_Witness ==
    /\ last.op = "get_penalty_matrix"
    /\ Len(BB) >= 4
    /\ last.out[1][3] # Zero
    /\ last.out[4][2] # Zero

\* C8: get_basis_matrix gives a P x M matrix with entry (p, b) =
\* basis[b](points[p]); get_deriv_matrix a P x M matrix with entry (p, b) =
\* basis[b].differentiate()(points[p]), the basis staying as it was
\* handed over; get_penalty_matrix an M x M matrix with entry (i, j) =
\* basis[i] % basis[j]
C8_Matrices ==
    /\ last.op = "get_basis_matrix" =>
          /\ Len(last.out) = Len(last.vec)
          /\ \A p \in 1..Len(last.vec) :
                /\ Len(last.out[p]) = Len(BB)
                /\ \A b \in 1..Len(BB) :
                      last.out[p][b] = eval_PP(BB[b], last.vec[p])
    /\ last.op = "get_deriv_matrix" =>
          LET BSderiv == [b \in 1..Len(BB) |-> differentiate(last.BSbasis[b])]
          IN  /\ Len(last.out) = Len(last.vec)
              /\ \A p \in 1..Len(last.vec) :
                    /\ Len(last.out[p]) = Len(BB)
                    /\ \A b \in 1..Len(BB) :
                          last.out[p][b] = eval_PP(BSderiv[b], last.vec[p])
              /\ BB = last.BSbasis
    /\ last.op = "get_penalty_matrix" =>
          /\ Len(last.out) = Len(BB)
          /\ \A i1 \in 1..Len(BB) :
                /\ Len(last.out[i1]) = Len(BB)
                /\ \A j1 \in 1..Len(BB) :
                      last.out[i1][j1] = PP_mod(BB[i1], BB[j1])

C8_Witness ==
    /\ last.op = "get_deriv_matrix"
    /\ Len(last.vec) = 2
    /\ Len(BB) >= 4
    /\ last.out[1][2] # Zero
    /\ last.out[2][1] # last.out[1][2]

\* C9: for a basis built from sorted data, at every evaluation point
\* strictly inside the data domain the values of all basis functions sum
\* to 1
C9_PartitionOfUnity ==
    last.op = "get_basis_matrix" =>
        \A p \in 1..Len(last.vec) :
            (RLt(data[1], last.vec[p]) /\ RLt(last.vec[p], data[Len(data)]))
                => RSum(last.out[p]) = One

\* the product of the second derivatives of the cubics with rows r1 and r2:
\* (6*a1*u + 2*b1) * (6*a2*u + 2*b2), as a row of prod_coefs
SecondDerivProduct(r1, r2) ==
    <<Zero,
      RMul(Q(36), RMul(r1[1], r2[1])),
      RMul(Q(12), RAdd(RMul(r1[1], r2[2]), RMul(r2[1], r1[2]))),
      RMul(Q(4), RMul(r1[2], r2[2]))>>

\* the integral from 0 to len of the polynomial with coefficient row c
IntegralTo(c, len) ==
    RAdd(RDiv(RMul(c[2], RPow(len, 3)), Q(3)),
         RAdd(RDiv(RMul(c[3], RPow(len, 2)), Q(2)), RMul(c[4], len)))

\* the row of PP2 that "%" pairs with row r of PP1, for operands at basis
\* positions i and j; outside 0..3 when row r has no partner
PairedRow(i, j, r) == r - (j - i)

\* C10: for two functions of one basis at positions i, j with |i - j| <= 3,
\* product row r is the product of the second derivatives of PP1's row r
\* and the PP2 row over the identical knot interval (row r-d if i < j, row
\* r if i = j, row r+d if i > j) and is integrated from 0 to
\* PP1.knots[r+1] - PP1.knots[r]; the d rows of PP1 without such a partner
\* have an all-zero product and contribute 0; the result is the sum
C10_AlignedRows ==
    (last.op = "mod" /\ Abs(last.i - last.j) <= 3) =>
        LET PP1 == BB[last.i + 1]
            PP2 == BB[last.j + 1]
            run == last.run
            paired == {r \in 0..3 : PairedRow(last.i, last.j, r) \in 0..3}
        IN  /\ ~run.early
            /\ Cardinality((0..3) \ paired) = Abs(last.i - last.j)
            /\ \A r \in paired :
                  LET q == PairedRow(last.i, last.j, r)
                  IN  /\ PP1.knots[r + 1] = PP2.knots[q + 1]
                      /\ PP1.knots[r + 2] = PP2.knots[q + 2]
                      /\ run.prod[r + 1] =
                            SecondDerivProduct(PP1.coefs[r + 1],
                                               PP2.coefs[q + 1])
                      /\ run.part[r + 1] =
                            IntegralTo(run.prod[r + 1],
                                       RSub(PP1.knots[r + 2], PP1.knots[r + 1]))
            /\ \A r \in (0..3) \ paired :
                  run.prod[r + 1] = ZeroRow /\ run.part[r + 1] = Zero
            /\ run.total = RSum(run.part)

C10_Witness ==
    /\ last.op = "mod"
    /\ last.i = last.j + 1
    /\ last.run.part[1] # Zero
    /\ last.run.part[3] # Zero
    /\ last.run.prod[4] = ZeroRow
    /\ last.run.total # Zero

(* ----------------------- claims on a hand-built PP ---------------------- *)
\* C4: at a point below knots[0] or above knots[4] the function evaluates
\* to exactly 0, whatever the coefficients
C4_ZeroOutside ==
    last.op = "call" =>
        LET PP == chain[last.k]
        IN  (RLt(last.x, PP.knots[1]) \/ RGt(last.x, PP.knots[5]))
                => last.out = Zero

C4_Witness ==
    /\ last.op = "call"
    /\ last.k = 1
    /\ RGt(last.x, chain[1].knots[5])
    /\ polyval(chain[1].coefs[4], RSub(last.x, chain[1].knots[4])) # Zero
    /\ last.out = Zero

\* C5: at a point in [knots[0], knots[4]] evaluation uses a row i in 0..3
\* with knots[i] <= x <= knots[i+1], and returns that row's cubic
\* ((a*u + b)*u + c)*u + d at u = x - knots[i]
C5_RowSelected ==
    last.op = "call" =>
        LET PP == chain[last.k]
            i == last.row
        IN  (RLe(PP.knots[1], last.x) /\ RLe(last.x, PP.knots[5])) =>
                /\ i \in 0..3
                /\ RLe(PP.knots[i + 1], last.x)
                /\ RLe(last.x, PP.knots[i + 2])
                /\ LET u == RSub(last.x, PP.knots[i + 1])
                       c == PP.coefs[i + 1]
                   IN  last.out =
                         RAdd(RMul(RAdd(RMul(RAdd(RMul(c[1], u), c[2]), u),
                                        c[3]), u), c[4])

C5_Witness ==
    /\ last.op = "call"
    /\ last.k = 1
    /\ last.row = 2
    /\ chain[1].knots[1] = chain[1].knots[2]
    /\ RLt(chain[1].knots[3], last.x)
    /\ RLt(last.x, chain[1].knots[4])
    /\ last.out # Zero

\* whether some knot is greater than its successor
SomeDescent(knots) ==
    \E i1 \in 1..(Len(knots) - 1) : RGt(knots[i1], knots[i1 + 1])

\* the constructor failed and there is no object
Failed == last.raised /\ obj = <<>>

\* the constructor returned an object holding its arguments
Stored ==
    /\ ~last.raised
    /\ Len(obj) = 1
    /\ obj[1].idx = last.idx
    /\ obj[1].knots = last.knots
    /\ obj[1].coefs = last.coefs

C7_Differentiate ==
    /\ last.op = "differentiate" =>
          /\ ~last.out.raised
          /\ last.out.knots = last.recv.knots
          /\ last.out.idx = last.recv.idx
          /\ \A i1 \in 1..4 :
                last.out.coefs[i1] =
                    <<Zero,
                      RMul(Q(3), last.recv.coefs[i1][1]),
                      RMul(Q(2), last.recv.coefs[i1][2]),
                      last.recv.coefs[i1][3]>>
          /\ chain[Len(chain)] = last.out
          /\ chain[Len(chain) - 1] = last.recv
    /\ chain # <<>> => chain[1] = obj[1]
    /\ Len(chain) >= 3 =>
          \A i1 \in 1..4 :
              chain[3].coefs[i1][1] = Zero /\ chain[3].coefs[i1][2] = Zero
    /\ Len(chain) >= 5 => chain[5].coefs = Zeros44
    /\ (last.op = "call" /\ last.k >= 5) => last.out = Zero

C7_Witness ==
    /\ last.op = "call"
    /\ last.k = 5
    /\ chain[1].coefs[1][1] # Zero
    /\ chain[1].coefs[2][1] = Zero
    /\ chain[4].coefs[1][4] # Zero
    /\ RLt(chain[1].knots[1], last.x)
    /\ RLt(last.x, chain[1].knots[2])

====
